---- MODULE Spec2Model ----
(***************************************************************************)
(* Model of the NVIDIA-GPT2 zero-shot classification baseline              *)
(* (zeroshot_encoder/baseline/gpt2.py):                                    *)
(*   - ZsGPT2Tokenizer.__call__ / call_single : sequence construction,     *)
(*     text cropping, position ids, padding            (specification SpecTok)   *)
(*   - ZsGPT2LMHeadModel.from_pretrained / get_model_n_tokenizer :         *)
(*     doubled positional embedding                    (specification SpecModel) *)
(*   - evaluate_trained : batching by length, parsing of generations       *)
(*                                                     (specification SpecEval)  *)
(* Token-id lists returned by the parent GPT2 tokenizer (_call_paren) are  *)
(* inputs of the model: lists of ordinary vocabulary ids.                  *)
(***************************************************************************)
EXTENDS Integers, Sequences, FiniteSets, TLC

\* ------------------------------------------------------------------ bounds
MaxQues == 2        \* longest question (template + labels), in ids
MaxText == 6        \* longest text, in ids
MaxAnsw == 2        \* longest label description, in ids
MaxModelLen == 12   \* largest scaled-down model_max_length
MaxCkpt == 4        \* number of distinct pretrained checkpoints tried
MaxInit == 3        \* number of distinct random initialisations tried
MaxSamples == 3     \* largest evaluation dataset
MaxBatch == 2       \* largest batch_size
MaxGen == 3         \* longest generated continuation, parsed alone
MaxEvalGen == 2     \* longest generated continuation in an evaluation run
MaxDatasets == 2    \* most datasets configured
MaxLoads == 2       \* most loads of one key followed
MaxName == 2        \* longest dataset name before '-label-grouped', in characters

\* ------------------------------------------------------- program constants
n_token_debug == 4          \* get_model_n_tokenizer: n_token of 'debug'
n_token_debug_large == 128  \* get_model_n_tokenizer: n_token of 'debug-large'
gpt2_n_positions == 1024    \* n_positions of every pretrained GPT2 configuration

\* ids of the special tokens, as enc_spec returns them: GPT2's eos token,
\* then the tokens added by add_special_tokens, in the order they are added
eos_token_id == 50256
pad_token_id == 50257
boq_token_id == 50258       \* '<|question|>'
bot_token_id == 50259       \* '<|text|>'
boa_token_id == 50260       \* '<|answer|>'
question_type_token_id == 50261   \* '[QUES]'
text_type_token_id == 50262       \* '[TEXT]'
answer_type_token_id == 50263     \* '[ANSW]'

None == -1                  \* max_length not passed

VARIABLES
    tk_pc,      \* "idle" | "returned" | "AssertionError": outcome of the last call_single
    tk_call,    \* the arguments of the last call_single
    tk_built,   \* its intermediate lists (lines 203-220)
    tk_out,     \* the dict it returned
    tk_warned   \* whether it emitted a truncation warning (warn, lines 189 / 199)

tk_vars == <<tk_pc, tk_call, tk_built, tk_out, tk_warned>>

VARIABLES
    md_pc,              \* position in get_model_n_tokenizer / from_pretrained
    md_conf,            \* [model_name, n_positions, ckpt, init]: the configuration built
    md_wpe,             \* md_.transformer.wpe.weight, one tag per row
    weight_pretrained,  \* md_ori.transformer.wpe.state_dict()['weight']
    md_warned,          \* 'Wrong model size, positional not loaded' was emitted
    tk_model_max_length \* model_max_length of the tokenizer that is returned

md_vars == <<md_pc, md_conf, md_wpe, weight_pretrained, md_warned, tk_model_max_length>>

VARIABLES
    ev_pc,          \* position in evaluate_trained
    dset,           \* [len_ids, is_multi_label, labels]: per sample, len(input_ids)
                    \* and the true labels; is_multi_label: the column is 'labels'
    labels,         \* d_info['labels']: the label descriptions of the dataset
    batch_size,
    idxs_batches,   \* the batches: lists of sample indices (from 0)
    step,           \* index of the current batch
    pos,            \* position in the current batch of the next sample to parse
    preds, trues,   \* the two arrays; Unwritten where np.empty left garbage
    writes,         \* per sample, how many times preds/trues were assigned
    d_log,          \* Unbound, or the step whose log record it holds
    last,           \* [i_sample, n_boa, id_pred] of the last set_pred_n_true call
    n_warn_boa      \* logger.warning calls about the number of boa tokens

ev_vars == <<ev_pc, dset, labels, batch_size, idxs_batches, step, pos, preds, trues,
             writes, d_log, last, n_warn_boa>>

VARIABLES
    ps_pc,          \* "idle" | "returned" | "NameError": outcome of set_pred_n_true
    ps_labels,      \* the label descriptions
    ps_generated,   \* the decoded generation
    ps_d_log,       \* whether d_log is bound when it is called
    ps_id_pred      \* its local id_pred

ps_vars == <<ps_pc, ps_labels, ps_generated, ps_d_log, ps_id_pred>>

VARIABLES
    run_pc,         \* position in the dataset loop of evaluate_trained
    in_domain,      \* its argument
    datasets,       \* config('UTCD.datasets'), in order: [name, out_of_domain]
    ds_i,           \* index of the dataset the loop is at
    csv_written     \* the datasets whose report was written to CSV, in order

run_vars == <<run_pc, in_domain, datasets, ds_i, csv_written>>

VARIABLES
    cache,          \* the Cache dict: the entries stored, by key
    n_loads,        \* per key, how many times load_from_disk ran for it
    ch_last         \* [key, outcome, checked, loaded] of the last __getitem__

ch_vars == <<cache, n_loads, ch_last>>

\* ------------------------------------------------------ python list helpers
Min(a, b) == IF a < b THEN a ELSE b
Max(a, b) == IF a > b THEN a ELSE b

\* s[:n] of a python list, n of either sign
PySliceTo(s, n) ==
    IF n >= 0 THEN SubSeq(s, 1, Min(n, Len(s)))
    ELSE SubSeq(s, 1, Max(Len(s) + n, 0))

\* [x] * n
Repeat(x, n) == [i \in 1..Max(n, 0) |-> x]

\* list(range(n))
Range(n) == [i \in 1..Max(n, 0) |-> i - 1]

\* ids of n ordinary tokens: distinct ids, so that a cut is visible
Ids(base, n) == [i \in 1..n |-> base + i]

\* --------------------------------------------------------- ZsGPT2Model
\* ZsGPT2Model.__init__: rows of the doubled positional embedding
wpe_rows(max_position_embeddings) == max_position_embeddings * 2

\* ------------------------------------------------------- ZsGPT2Tokenizer
max_len_single_sentence(model_max_length) == model_max_length - 2 * 3

\* lines 159-168 and 158: the answer string that is tokenized
answer_ids(is_utcd, for_prediction, lb_ids) ==
    IF is_utcd THEN lb_ids
    ELSE IF for_prediction THEN << >> ELSE lb_ids

\* mutant: no position kept for the end-of-sequence token
room_no_eos(model_max_length, max_label_id_length) ==
    model_max_length - max_label_id_length

\* line 184
room(model_max_length, max_label_id_length) ==
    model_max_length - 1 - max_label_id_length

\* lines 180-191: [crop, ln_t_] for prediction
crop_prediction(model_max_length, max_label_id_length, ln_q, ln_t) ==
    LET ln_cont == (1 + ln_q + 1) + (1 + ln_t + 1) + 1
        rm == room(model_max_length, max_label_id_length)
    IN  IF ln_cont > rm
        THEN [crop |-> TRUE, ln_t_ |-> rm - ((1 + ln_q + 1) + (1 + 1) + 1)]
        ELSE [crop |-> FALSE, ln_t_ |-> ln_t]

\* lines 192-201: [crop, ln_t_] for training
crop_training(model_max_length, ln_q, ln_t, ln_a) ==
    LET ln_ids == ln_q + ln_t + ln_a
    IN  IF ln_ids > max_len_single_sentence(model_max_length)
        THEN [crop |-> TRUE,
              ln_t_ |-> max_len_single_sentence(model_max_length) - (ln_q + ln_a)]
        ELSE [crop |-> FALSE, ln_t_ |-> ln_t]

\* lines 205-209
build_ids(ids_ques, ids_text, ids_answ) ==
    <<boq_token_id>> \o ids_ques \o <<eos_token_id>> \o
    <<bot_token_id>> \o ids_text \o <<eos_token_id>> \o
    <<boa_token_id>> \o ids_answ \o <<eos_token_id>>

\* mutant: the type of a segment covers its ids only, not its two special tokens
build_tids_shifted(n_ques, n_text, n_answ) ==
    Repeat(question_type_token_id, n_ques - 1) \o
    Repeat(text_type_token_id, n_text + 1) \o
    Repeat(answer_type_token_id, n_answ)

\* lines 210-212
build_tids(n_ques, n_text, n_answ) ==
    Repeat(question_type_token_id, n_ques) \o
    Repeat(text_type_token_id, n_text) \o
    Repeat(answer_type_token_id, n_answ)

\* mutant: the slice taken from the wrong end, ids[(n_answ-1):]
cut_answer_front(ints, n_answ, for_prediction) ==
    IF for_prediction THEN SubSeq(ints, n_answ, Len(ints)) ELSE ints

\* lines 213-214: ids[:-(n_answ-1)] in prediction
cut_answer(ints, n_answ, for_prediction) ==
    IF for_prediction THEN PySliceTo(ints, -(n_answ - 1)) ELSE ints

\* mutant: one range of positions, no n_token offset for the output
build_pids_no_offset(n_cont, n_ids, n_token) == Range(n_ids)

\* line 219
build_pids(n_cont, n_ids, n_token) ==
    Range(n_cont) \o [i \in 1..Max(n_ids - n_cont, 0) |-> (i - 1) + n_token]

\* lines 226-233
int_pad(name) ==
    IF name = "attention_mask" THEN 0
    ELSE IF name = "position_ids" THEN 0
    ELSE pad_token_id

\* mutant: pads only, never cuts to max_length
pad_no_truncate(ints, name, max_length) ==
    ints \o Repeat(int_pad(name), max_length - Len(ints))

\* line 234
pad(ints, name, max_length) ==
    IF Len(ints) > max_length THEN PySliceTo(ints, max_length)
    ELSE ints \o Repeat(int_pad(name), max_length - Len(ints))

NoLists == [ids_text |-> << >>, ids_full |-> << >>, tids_full |-> << >>,
            ids |-> << >>, tids |-> << >>, msks |-> << >>, pids |-> << >>,
            n_ques |-> 0, n_text |-> 0, n_answ |-> 0, n_cont |-> 0]
NoOut == [input_ids |-> << >>, attention_mask |-> << >>,
          token_type_ids |-> << >>, position_ids |-> << >>]

\* lines 130-134
effective_max_length(c) ==
    IF c.max_length = None THEN c.model_max_length ELSE c.max_length

\* lines 139-239: the whole of call_single on the arguments c;
\* [pc, built, out, warned]
call_single(c) ==
    LET ids_ques == c.ids_ques
        ids_answ == answer_ids(c.is_utcd, c.for_prediction, c.lb_ids)
        ln_q == Len(ids_ques)
        ln_t == Len(c.ids_text)
        ln_a == Len(ids_answ)
        n_token == c.model_max_length
        max_length == effective_max_length(c)
        cr == IF c.for_prediction
              THEN crop_prediction(c.model_max_length, c.max_label_id_length, ln_q, ln_t)
              ELSE crop_training(c.model_max_length, ln_q, ln_t, ln_a)
    IN  IF cr.crop /\ ~(cr.ln_t_ > 0)
        THEN [pc |-> "AssertionError", built |-> NoLists, out |-> NoOut,
              warned |-> FALSE]
        ELSE
        LET ids_text == IF cr.crop THEN PySliceTo(c.ids_text, cr.ln_t_) ELSE c.ids_text
            n_ques == 1 + Len(ids_ques) + 1
            n_text == 1 + Len(ids_text) + 1
            n_answ == 1 + Len(ids_answ) + 1
            n_cont == n_ques + n_text + 1
            ids_full == build_ids(ids_ques, ids_text, ids_answ)
            tids_full == build_tids(n_ques, n_text, n_answ)
            ids == cut_answer(ids_full, n_answ, c.for_prediction)
            tids == cut_answer(tids_full, n_answ, c.for_prediction)
            msks == Repeat(1, Len(ids))
            pids == build_pids(n_cont, Len(ids), n_token)
        IN  IF (c.for_prediction /\ Len(ids) # n_ques + n_text + 1)
               \/ Len(tids) # Len(ids) \/ Len(msks) # Len(ids) \/ Len(pids) # Len(ids)
            THEN [pc |-> "AssertionError", built |-> NoLists, out |-> NoOut,
                  warned |-> cr.crop]
            ELSE [pc |-> "returned",
                  built |-> [ids_text |-> ids_text, ids_full |-> ids_full,
                             tids_full |-> tids_full, ids |-> ids, tids |-> tids,
                             msks |-> msks, pids |-> pids,
                             n_ques |-> n_ques, n_text |-> n_text,
                             n_answ |-> n_answ, n_cont |-> n_cont],
                  out |-> IF c.for_prediction
                          THEN [input_ids |-> ids, attention_mask |-> msks,
                                token_type_ids |-> tids, position_ids |-> pids]
                          ELSE [input_ids |-> pad(ids, "input_ids", max_length),
                                attention_mask |-> pad(msks, "attention_mask", max_length),
                                token_type_ids |-> pad(tids, "token_type_ids", max_length),
                                position_ids |-> pad(pids, "position_ids", max_length)],
                  warned |-> cr.crop]

\* the model_max_length values: the debug size and scaled-down full sizes
ModelMaxLengths == {n_token_debug} \cup (9..MaxModelLen)

\* the arguments call_single can be given
Calls ==
    { [model_max_length |-> m, max_length |-> ml, for_prediction |-> fp,
       is_utcd |-> u, ids_ques |-> Ids(100, q), ids_text |-> Ids(200, t),
       lb_ids |-> Ids(300, a), max_label_id_length |-> mx] :
      m \in ModelMaxLengths, ml \in {None} \cup (1..MaxModelLen + 1),
      fp \in BOOLEAN, u \in BOOLEAN, q \in 1..MaxQues, t \in 0..MaxText,
      a \in 1..MaxAnsw, mx \in 1..MaxAnsw }

NoCall == [model_max_length |-> n_token_debug, max_length |-> None,
           for_prediction |-> FALSE, is_utcd |-> FALSE, ids_ques |-> << >>,
           ids_text |-> << >>, lb_ids |-> << >>, max_label_id_length |-> 0]

TokInit ==
    /\ tk_pc = "idle"
    /\ tk_call = NoCall
    /\ tk_built = NoLists
    /\ tk_out = NoOut
    /\ tk_warned = FALSE

\* ZsGPT2Tokenizer.__call__ on one sample
CallSingle ==
    /\ tk_pc = "idle"
    /\ \E c \in Calls :
        \* max_length is read by pad only, max_label_id_length in prediction only;
        \* the label is one of the dataset's, so no longer than the longest
        /\ c.for_prediction => c.max_length = None
        /\ Len(c.lb_ids) <= c.max_label_id_length
        /\ LET r == call_single(c)
           IN  /\ tk_pc' = r.pc
               /\ tk_call' = c
               /\ tk_built' = r.built
               /\ tk_out' = r.out
               /\ tk_warned' = r.warned
    /\ UNCHANGED <<md_vars, ev_vars, ps_vars, run_vars, ch_vars>>

\* the caller takes the result (or the AssertionError); the tokenizer keeps
\* nothing of a call_single between samples
NextSample ==
    /\ tk_pc # "idle"
    /\ tk_pc' = "idle"
    /\ tk_call' = NoCall
    /\ tk_built' = NoLists
    /\ tk_out' = NoOut
    /\ tk_warned' = FALSE
    /\ UNCHANGED <<md_vars, ev_vars, ps_vars, run_vars, ch_vars>>

TokNext == CallSingle \/ NextSample


\* ======================================================= ZsGPT2LMHeadModel
ModelNames == {"debug", "debug-large", "gpt2", "gpt2-medium"}
IsDebug(model_name) == model_name \in {"debug", "debug-large"}
IsLarge(model_name) == model_name \in {"debug-large"}

\* the positional weights stored in a pretrained GPT2 checkpoint: a tag per row
Checkpoint(ckpt) == [i \in 1..gpt2_n_positions |-> ckpt * 10 + (i % 7)]
\* freshly initialised rows (a weight the checkpoint could not fill)
RandomInit(init, rows) == [i \in 1..rows |-> -(init * 10 + (i % 3)) - 1]

\* get_model_n_tokenizer, lines 365-381: n_positions of the configuration
conf_n_positions(model_name) ==
    IF IsDebug(model_name)
    THEN (IF IsLarge(model_name) THEN n_token_debug_large ELSE n_token_debug)
    ELSE gpt2_n_positions

\* mutant: only the lower half is loaded
load_positional_lower_only(weight, pretrained) ==
    [i \in 1..Len(weight) |->
        IF i <= 1024 THEN pretrained[i] ELSE weight[i]]

\* lines 324-325: weight[:1024, :] = pretrained; weight[1024:, :] = pretrained
load_positional(weight, pretrained) ==
    [i \in 1..Len(weight) |->
        IF i <= 1024 THEN pretrained[i] ELSE pretrained[i - 1024]]

ModelInit ==
    /\ md_pc = "idle"
    /\ md_conf = [model_name |-> "gpt2", n_positions |-> gpt2_n_positions,
                  ckpt |-> 1, init |-> 1]
    /\ md_wpe = << >>
    /\ weight_pretrained = << >>
    /\ md_warned = FALSE
    /\ tk_model_max_length = 0

\* get_model_n_tokenizer, lines 360-381, up to the call of from_pretrained
GetModelNTokenizer ==
    /\ md_pc = "idle"
    /\ \E nm \in ModelNames, ck \in 1..MaxCkpt, r \in 1..MaxInit :
        md_conf' = [model_name |-> nm, n_positions |-> conf_n_positions(nm),
                    ckpt |-> ck, init |-> r]
    /\ md_pc' = "from_pretrained"
    /\ UNCHANGED <<md_wpe, weight_pretrained, md_warned, tk_model_max_length>>
    /\ UNCHANGED <<tk_vars, ev_vars, ps_vars, run_vars, ch_vars>>

\* line 314: md_ is built by ZsGPT2Model.__init__ with a doubled wpe, which
\* the checkpoint's wpe.weight does not fit (ignore_mismatched_sizes)
LoadZsModel ==
    /\ md_pc = "from_pretrained"
    /\ md_wpe' = RandomInit(md_conf.init, wpe_rows(md_conf.n_positions))
    /\ md_pc' = "load_ori"
    /\ UNCHANGED <<md_conf, weight_pretrained, md_warned, tk_model_max_length>>
    /\ UNCHANGED <<tk_vars, ev_vars, ps_vars, run_vars, ch_vars>>

\* lines 315-318: the plain GPT2LMHeadModel under the same configuration; its
\* wpe holds the checkpoint's rows when the sizes agree, fresh rows otherwise
LoadOriginal ==
    /\ md_pc = "load_ori"
    /\ weight_pretrained' =
        IF md_conf.n_positions = gpt2_n_positions
        THEN Checkpoint(md_conf.ckpt)
        ELSE RandomInit(md_conf.init + 1, md_conf.n_positions)
    /\ md_pc' = "load_positional"
    /\ UNCHANGED <<md_conf, md_wpe, md_warned, tk_model_max_length>>
    /\ UNCHANGED <<tk_vars, ev_vars, ps_vars, run_vars, ch_vars>>

\* lines 321-328
LoadPositional ==
    /\ md_pc = "load_positional"
    /\ LET n_tok == Len(md_wpe)
       IN  IF n_tok = 1024 * 2
           THEN /\ md_wpe' = load_positional(md_wpe, weight_pretrained)
                /\ md_warned' = FALSE
           ELSE /\ md_warned' = TRUE
                /\ md_wpe' = md_wpe
    /\ md_pc' = "tokenizer"
    /\ UNCHANGED <<md_conf, weight_pretrained, tk_model_max_length>>
    /\ UNCHANGED <<tk_vars, ev_vars, ps_vars, run_vars, ch_vars>>

\* lines 374-388: the tokenizer is built for the model's number of positions
BuildTokenizer ==
    /\ md_pc = "tokenizer"
    /\ tk_model_max_length' =
        IF IsDebug(md_conf.model_name) THEN md_conf.n_positions ELSE 1024
    /\ md_pc' = "returned"
    /\ UNCHANGED <<md_conf, md_wpe, weight_pretrained, md_warned>>
    /\ UNCHANGED <<tk_vars, ev_vars, ps_vars, run_vars, ch_vars>>

ModelNext ==
    \/ GetModelNTokenizer
    \/ LoadZsModel
    \/ LoadOriginal
    \/ LoadPositional
    \/ BuildTokenizer

\* ========================================================= evaluate_trained
Unwritten == -2     \* an entry of np.empty(len(dset)) not assigned yet
Unbound == -1       \* d_log before its first assignment

boa_token == <<"<|answer|>">>
eos_token == <<"<|endoftext|>">>

\* str.lower(), character by character
LowerChar(c) == CASE c = "A" -> "a" [] c = "B" -> "b" [] OTHER -> c
Lower(str) == [i \in 1..Len(str) |-> LowerChar(str[i])]

\* s[n:] of a python string, n >= 0
PySliceFrom(s, n) == SubSeq(s, n + 1, Len(s))

RECURSIVE SetToSortedSeq(_)
SetToSortedSeq(S) ==
    IF S = {} THEN << >>
    ELSE LET m == CHOOSE x \in S : \A y \in S : x <= y
         IN  <<m>> \o SetToSortedSeq(S \ {m})

RECURSIVE Flatten(_)
\* sum(lists, start=[])
Flatten(lists) ==
    IF lists = << >> THEN << >> ELSE Head(lists) \o Flatten(Tail(lists))

\* zeroshot_encoder.util.get_substr_indices: the indices (from 0) at which
\* s_sub occurs in s, ascending
get_substr_indices(s, s_sub) ==
    SetToSortedSeq({i \in 0..(Len(s) - Len(s_sub)) :
                        SubSeq(s, i + 1, i + Len(s_sub)) = s_sub})

\* lines 621-624 and 733: lb2id[key], a defaultdict of -1 over the
\* lower-cased descriptions (a later label overrides an equal earlier one)
lb2id(lbs, key) ==
    LET hits == {i \in 1..Len(lbs) : Lower(lbs[i]) = key}
    IN  IF hits = {} THEN -1
        ELSE (CHOOSE i \in hits : \A j \in hits : j <= i) - 1

\* mutant: the last end-of-sequence token closes the answer, idxs_eot[-1]
answer_text_last_eos(answer_with_eos, idxs_eot) ==
    Lower(PySliceTo(answer_with_eos, idxs_eot[Len(idxs_eot)]))

\* line 732: answer_with_eos[:idxs_eot[0]].lower()
answer_text(answer_with_eos, idxs_eot) ==
    Lower(PySliceTo(answer_with_eos, idxs_eot[1]))

\* lines 704-735 of set_pred_n_true: [id_pred, n_boa, no_eos, assert_ok]
parse_generated(generated, lbs) ==
    LET idxs_boa == get_substr_indices(generated, boa_token)
        answer_with_eos == PySliceFrom(generated, idxs_boa[1] + Len(boa_token))
    IN  IF Len(idxs_boa) > 1
        THEN [id_pred |-> -1, n_boa |-> Len(idxs_boa), no_eos |-> FALSE,
              assert_ok |-> TRUE]
        ELSE
        LET idxs_eot == get_substr_indices(answer_with_eos, eos_token)
        IN  IF Len(idxs_eot) = 0
            THEN [id_pred |-> -1, n_boa |-> Len(idxs_boa), no_eos |-> TRUE,
                  assert_ok |-> Len(idxs_boa) = 1]
            ELSE
            LET answer == answer_text(answer_with_eos, idxs_eot)
                id_pred == lb2id(lbs, answer)
            IN  [id_pred |-> id_pred, n_boa |-> Len(idxs_boa), no_eos |-> FALSE,
                 assert_ok |->
                    /\ Len(idxs_boa) = 1
                    /\ (id_pred = -1 =>
                            \A i \in 1..Len(lbs) : Lower(lbs[i]) # Lower(answer))]

\* lines 739-744: the true label recorded for a prediction
pick_true(id_pred, lbs_true) ==
    IF \E k \in 1..Len(lbs_true) : lbs_true[k] = id_pred
    THEN id_pred
    ELSE lbs_true[1]

\* line 650: np.unique(len_ids)
np_unique(arr) == SetToSortedSeq({arr[i] : i \in 1..Len(arr)})

\* np.where(len_ids == ln)[0]
np_where_eq(arr, v) == SetToSortedSeq({i - 1 : i \in {j \in 1..Len(arr) : arr[j] = v}})

\* mutant: one group of all the samples, whatever their lengths
ln2idxs_one_group(len_ids) == << [i \in 1..Len(len_ids) |-> i - 1] >>

\* line 664
ln2idxs(len_ids) ==
    LET uniq_lens == np_unique(len_ids)
    IN  [k \in 1..Len(uniq_lens) |-> np_where_eq(len_ids, uniq_lens[k])]

\* mutant: each chunk after the first starts on the last index of the one before
np_split_overlap(idxs, bs) ==
    LET n_cut == (Len(idxs) - 1) \div bs
    IN  [k \in 1..(n_cut + 1) |->
            SubSeq(idxs, IF k = 1 THEN 1 ELSE (k - 1) * bs,
                   IF k <= n_cut THEN k * bs ELSE Len(idxs))]

\* np.split(idxs, range(batch_size, idxs.size, batch_size))
np_split(idxs, bs) ==
    LET n_cut == (Len(idxs) - 1) \div bs
    IN  [k \in 1..(n_cut + 1) |->
            SubSeq(idxs, (k - 1) * bs + 1, IF k <= n_cut THEN k * bs ELSE Len(idxs))]

\* lines 666-670
make_idxs_batches(len_ids, bs) ==
    LET groups == ln2idxs(len_ids)
    IN  Flatten([k \in 1..Len(groups) |->
                    IF Len(groups[k]) > bs THEN np_split(groups[k], bs)
                    ELSE <<groups[k]>>])

\* ---- inputs of an evaluation
Seqs(S, n) == UNION {[1..k -> S] : k \in 0..n}
EvalSymbols == {"<|answer|>", "<|endoftext|>", "a", "b"}
Symbols == EvalSymbols \cup {"A"}
\* the decoded prompt every generation starts with
Prompt == <<"<|question|>", "a", "<|endoftext|>", "<|text|>", "b", "<|endoftext|>",
            "<|answer|>">>
LabelLists == { << <<"A">>, <<"b">> >>, << <<"B">>, <<"A", "b">> >> }
\* the true labels of the samples of a multi-label dataset (column 'labels'):
\* one-label and two-label samples alternate
TrueLabels(n, shift) == [i \in 1..n |-> IF (i + shift) % 2 = 0 THEN <<0>> ELSE <<1, 0>>]
\* the true label of the samples of a single-label dataset (column 'label')
TrueLabel(n, shift) == [i \in 1..n |-> <<(i + shift) % 2>>]
PromptLens == {7, 9}

NoLast == [i_sample |-> -1, n_boa |-> 0, id_pred |-> -1]

EvalInit ==
    /\ ev_pc = "idle"
    /\ dset = [len_ids |-> << >>, is_multi_label |-> TRUE, labels |-> << >>]
    /\ labels = << >>
    /\ batch_size = 1
    /\ idxs_batches = << >>
    /\ step = 0
    /\ pos = 0
    /\ preds = << >>
    /\ trues = << >>
    /\ writes = << >>
    /\ d_log = Unbound
    /\ last = NoLast
    /\ n_warn_boa = 0

\* lines 619-675: the dataset is loaded and tokenized, the arrays allocated,
\* the batches formed
LoadDataset ==
    /\ ev_pc = "idle"
    /\ \E n \in 1..MaxSamples, bs \in 1..MaxBatch, lbs \in LabelLists :
       \E lens \in [1..n -> PromptLens], shift \in 0..1, is_multi \in BOOLEAN :
        \* line 620: is_multi_label = d_info['multi_label'], from the configuration
        /\ dset' = [len_ids |-> lens, is_multi_label |-> is_multi,
                    labels |-> IF is_multi THEN TrueLabels(n, shift)
                               ELSE TrueLabel(n, shift)]
        /\ labels' = lbs
        /\ batch_size' = bs
        /\ idxs_batches' = make_idxs_batches(lens, bs)
        /\ preds' = [i \in 1..n |-> Unwritten]
        /\ trues' = [i \in 1..n |-> Unwritten]
        /\ writes' = [i \in 1..n |-> 0]
    /\ step' = 0
    /\ pos' = 0
    /\ ev_pc' = "batch"
    /\ UNCHANGED <<d_log, last, n_warn_boa>>
    /\ UNCHANGED <<tk_vars, md_vars, ps_vars, run_vars, ch_vars>>

\* lines 680-699: the next batch is generated and decoded
Generate ==
    /\ ev_pc = "batch"
    /\ step < Len(idxs_batches)
    /\ pos' = 0
    /\ ev_pc' = "parse"
    /\ UNCHANGED <<dset, labels, batch_size, idxs_batches, step, preds, trues, writes,
                   d_log, last, n_warn_boa>>
    /\ UNCHANGED <<tk_vars, md_vars, ps_vars, run_vars, ch_vars>>

\* lines 702-748, called by the comprehension of lines 749-751 on the next
\* sample of the batch; the decoded output of the sample is whatever the
\* model generated after the prompt
SetPredNTrue ==
    /\ ev_pc = "parse"
    /\ pos < Len(idxs_batches[step + 1])
    /\ \E cont \in Seqs(EvalSymbols, MaxEvalGen) :
        LET generated == Prompt \o cont
            i_sample == idxs_batches[step + 1][pos + 1]
            r == parse_generated(generated, labels)
            id_true == pick_true(r.id_pred, dset.labels[i_sample + 1])
        IN  /\ last' = [i_sample |-> i_sample, n_boa |-> r.n_boa, id_pred |-> r.id_pred]
            /\ n_warn_boa' = IF r.n_boa > 1 THEN n_warn_boa + 1 ELSE n_warn_boa
            /\ IF r.n_boa > 1 /\ d_log = Unbound
               THEN \* line 717 reads d_log, assigned only at line 752
                    /\ ev_pc' = "NameError"
                    /\ UNCHANGED <<preds, trues, writes, pos>>
               ELSE IF ~r.assert_ok
               THEN /\ ev_pc' = "AssertionError"
                    /\ UNCHANGED <<preds, trues, writes, pos>>
               ELSE IF ~dset.is_multi_label
               THEN \* line 739: dset[i_sample]['labels'], the column being 'label'
                    /\ ev_pc' = "KeyError"
                    /\ UNCHANGED <<preds, trues, writes, pos>>
               ELSE /\ preds' = [preds EXCEPT ![i_sample + 1] = r.id_pred]
                    /\ trues' = [trues EXCEPT ![i_sample + 1] = id_true]
                    /\ writes' = [writes EXCEPT ![i_sample + 1] = @ + 1]
                    /\ pos' = pos + 1
                    /\ ev_pc' = "parse"
    /\ UNCHANGED <<dset, labels, batch_size, idxs_batches, step, d_log>>
    /\ UNCHANGED <<tk_vars, md_vars, ps_vars, run_vars, ch_vars>>

\* lines 752-760: the batch is logged
LogBatch ==
    /\ ev_pc = "parse"
    /\ pos = Len(idxs_batches[step + 1])
    /\ d_log' = step
    /\ step' = step + 1
    /\ ev_pc' = "batch"
    /\ UNCHANGED <<dset, labels, batch_size, idxs_batches, pos, preds, trues, writes,
                   last, n_warn_boa>>
    /\ UNCHANGED <<tk_vars, md_vars, ps_vars, run_vars, ch_vars>>

\* lines 765-778: the report is written and the process exits
WriteReport ==
    /\ ev_pc = "batch"
    /\ step = Len(idxs_batches)
    /\ ev_pc' = "exit"
    /\ UNCHANGED <<dset, labels, batch_size, idxs_batches, step, pos, preds, trues,
                   writes, d_log, last, n_warn_boa>>
    /\ UNCHANGED <<tk_vars, md_vars, ps_vars, run_vars, ch_vars>>

EvalNext ==
    \/ LoadDataset
    \/ Generate
    \/ SetPredNTrue
    \/ LogBatch
    \/ WriteReport

\* ---- set_pred_n_true on one generation, alone
ParseInit ==
    /\ ps_pc = "idle"
    /\ ps_labels = << >>
    /\ ps_generated = << >>
    /\ ps_d_log = FALSE
    /\ ps_id_pred = -1

\* lines 702-748 on any generation, with d_log bound or not
ParseGenerated ==
    /\ ps_pc = "idle"
    /\ \E cont \in Seqs(Symbols, MaxGen), lbs \in LabelLists, bound \in BOOLEAN :
        LET r == parse_generated(Prompt \o cont, lbs)
        IN  /\ ps_generated' = Prompt \o cont
            /\ ps_labels' = lbs
            /\ ps_d_log' = bound
            /\ ps_id_pred' = r.id_pred
            /\ ps_pc' = IF r.n_boa > 1 /\ ~bound THEN "NameError"
                        ELSE IF ~r.assert_ok THEN "AssertionError"
                        ELSE "returned"
    /\ UNCHANGED <<tk_vars, md_vars, ev_vars, run_vars, ch_vars>>

\* the next generation is parsed afresh
ParseReset ==
    /\ ps_pc # "idle"
    /\ ps_pc' = "idle"
    /\ ps_labels' = << >>
    /\ ps_generated' = << >>
    /\ ps_d_log' = FALSE
    /\ ps_id_pred' = -1
    /\ UNCHANGED <<tk_vars, md_vars, ev_vars, run_vars, ch_vars>>

ParseNext == ParseGenerated \/ ParseReset

\* ================================== evaluate_trained: the loop over datasets
DatasetNames == {"multi_eurlex", "ag_news", "yahoo", "consumer_finance"}

\* config('UTCD.datasets'): up to MaxDatasets datasets of distinct names
DatasetConfigs ==
    { c \in UNION {[1..k -> [name : DatasetNames, out_of_domain : BOOLEAN]] :
                        k \in 1..MaxDatasets} :
        \A i, j \in 1..Len(c) : i # j => c[i].name # c[j].name }

\* line 615
in_selected_domain(d, in_dom) == d.out_of_domain = (~in_dom)

\* lines 617-618
is_evaluated(dnm_) == dnm_ = "multi_eurlex"

RunInit ==
    /\ run_pc = "idle"
    /\ in_domain = TRUE
    /\ datasets = << >>
    /\ ds_i = 1
    /\ csv_written = << >>

\* lines 588-613
CallEvaluateTrained ==
    /\ run_pc = "idle"
    /\ \E dom \in BOOLEAN, c \in DatasetConfigs :
        /\ in_domain' = dom
        /\ datasets' = c
    /\ ds_i' = 1
    /\ run_pc' = "loop"
    /\ UNCHANGED csv_written
    /\ UNCHANGED <<tk_vars, md_vars, ev_vars, ps_vars, ch_vars>>

\* lines 614-615: a dataset of the other domain is passed over
SkipOtherDomain ==
    /\ run_pc = "loop"
    /\ ds_i <= Len(datasets)
    /\ ~in_selected_domain(datasets[ds_i], in_domain)
    /\ ds_i' = ds_i + 1
    /\ UNCHANGED <<run_pc, in_domain, datasets, csv_written>>
    /\ UNCHANGED <<tk_vars, md_vars, ev_vars, ps_vars, ch_vars>>

\* lines 617-618: continue
SkipNotEvaluated ==
    /\ run_pc = "loop"
    /\ ds_i <= Len(datasets)
    /\ in_selected_domain(datasets[ds_i], in_domain)
    /\ ~is_evaluated(datasets[ds_i].name)
    /\ ds_i' = ds_i + 1
    /\ UNCHANGED <<run_pc, in_domain, datasets, csv_written>>
    /\ UNCHANGED <<tk_vars, md_vars, ev_vars, ps_vars, ch_vars>>

\* lines 619-778: the dataset is evaluated batch by batch (SpecEval), its
\* report written to CSV, and the process exits
EvaluateDataset ==
    /\ run_pc = "loop"
    /\ ds_i <= Len(datasets)
    /\ in_selected_domain(datasets[ds_i], in_domain)
    /\ is_evaluated(datasets[ds_i].name)
    /\ csv_written' = Append(csv_written, datasets[ds_i].name)
    /\ run_pc' = "exit"
    /\ UNCHANGED <<in_domain, datasets, ds_i>>
    /\ UNCHANGED <<tk_vars, md_vars, ev_vars, ps_vars, ch_vars>>

\* lines 680-751: a batch raises (the NameError or KeyError of
\* set_pred_n_true) and the evaluation ends without a report
EvaluateDatasetRaises ==
    /\ run_pc = "loop"
    /\ ds_i <= Len(datasets)
    /\ in_selected_domain(datasets[ds_i], in_domain)
    /\ is_evaluated(datasets[ds_i].name)
    /\ run_pc' = "raised"
    /\ UNCHANGED <<in_domain, datasets, ds_i, csv_written>>
    /\ UNCHANGED <<tk_vars, md_vars, ev_vars, ps_vars, ch_vars>>

\* line 614: the loop is over, evaluate_trained returns
ReturnFromEvaluate ==
    /\ run_pc = "loop"
    /\ ds_i > Len(datasets)
    /\ run_pc' = "returned"
    /\ UNCHANGED <<in_domain, datasets, ds_i, csv_written>>
    /\ UNCHANGED <<tk_vars, md_vars, ev_vars, ps_vars, ch_vars>>

RunNext ==
    \/ CallEvaluateTrained
    \/ SkipOtherDomain
    \/ SkipNotEvaluated
    \/ EvaluateDataset
    \/ EvaluateDatasetRaises
    \/ ReturnFromEvaluate

\* ================================================== ZsGPT2Tokenizer.Cache
\* a dataset name is a string of characters; the fourteen characters of
\* '-label-grouped' are written as one symbol
Grouped == "-label-grouped"
BaseName(n) == [i \in 1..n |-> "a"]
\* the datasets on disk: a single-label one, and multi-label ones saved
\* under '<name>-label-grouped' (evaluate_trained, line 626)
DiskNames == {BaseName(1)} \cup {BaseName(n) \o <<Grouped>> : n \in 1..MaxName}
Splits == {"train", "test"}
Keys == [dataset_name : DiskNames, split : Splits]

\* config('UTCD.datasets.<name>.splits.<split>.labels')
ConfigLabels(dataset_name, split) ==
    IF split = "train"
    THEN << <<"x">>, <<"y", "z">> >>
    ELSE << <<"x">>, <<"y", "z">> >> \o [i \in 1..Len(dataset_name) |-> <<"w", "x", "y">>]

\* the name a dataset was saved from
DiskBase(dataset_name) ==
    IF dataset_name[Len(dataset_name)] = Grouped
    THEN SubSeq(dataset_name, 1, Len(dataset_name) - 1)
    ELSE dataset_name

\* line 67: 'labels' in dset.features.keys()
is_multi_label(dataset_name) == dataset_name[Len(dataset_name)] = Grouped

\* dset.features[...].names of the dataset on disk: the configured labels
FeatNames(dataset_name, split) == ConfigLabels(DiskBase(dataset_name), split)

\* line 50 and 71: re.compile(r'^(?P<dataset_name>.?)-label-grouped$').match;
\* '.?' takes at most one character. [matched, dataset_name]
tpl_grouped_match(dataset_name) ==
    LET n == Len(dataset_name)
    IN  IF /\ n >= 1
           /\ dataset_name[n] = Grouped
           /\ n - 1 <= 1
           /\ \A i \in 1..(n - 1) : dataset_name[i] # Grouped
        THEN [matched |-> TRUE, dataset_name |-> SubSeq(dataset_name, 1, n - 1)]
        ELSE [matched |-> FALSE, dataset_name |-> << >>]

\* line 76: the longest label, in ids (_call_paren gives one id per character here)
max_label_id_length(names) ==
    LET lens == {Len(names[i]) : i \in 1..Len(names)}
    IN  CHOOSE m \in lens : \A l \in lens : l <= m

NoEntry == [n_classes |-> 0, label2description |-> << >>, max_label_id_length |-> 0]
NoName == << >>

\* lines 60-78: Cache.__getitem__; [outcome, loaded, checked, entry], entry
\* being what the dict holds for the key afterwards
getitem(c, key) ==
    IF c[key] # NoEntry
    THEN [outcome |-> "returned", loaded |-> FALSE, checked |-> NoName, entry |-> c[key]]
    ELSE
    LET names == FeatNames(key.dataset_name, key.split)
        m == tpl_grouped_match(key.dataset_name)
        dataset_name == IF is_multi_label(key.dataset_name)
                        THEN m.dataset_name ELSE key.dataset_name
    IN  IF is_multi_label(key.dataset_name) /\ ~m.matched
        THEN \* None.group('dataset_name')
             [outcome |-> "AttributeError", loaded |-> TRUE, checked |-> NoName,
              entry |-> NoEntry]
        ELSE IF names # ConfigLabels(dataset_name, key.split)
        THEN [outcome |-> "AssertionError", loaded |-> TRUE, checked |-> dataset_name,
              entry |-> NoEntry]
        ELSE [outcome |-> "returned", loaded |-> TRUE, checked |-> dataset_name,
              entry |-> [n_classes |-> Len(names), label2description |-> names,
                         max_label_id_length |-> max_label_id_length(names)]]

CacheInit ==
    /\ cache = [k \in Keys |-> NoEntry]
    /\ n_loads = [k \in Keys |-> 0]
    /\ ch_last = [key |-> [dataset_name |-> BaseName(1), split |-> "train"],
                  outcome |-> "none", loaded |-> FALSE, checked |-> NoName]

\* self.cache[dataset_name, split]
GetItem ==
    /\ \E key \in Keys :
        /\ (cache[key] = NoEntry => n_loads[key] < MaxLoads)
        /\ LET r == getitem(cache, key)
           IN  /\ cache' = [cache EXCEPT ![key] = r.entry]
               /\ n_loads' = [n_loads EXCEPT ![key] = IF r.loaded THEN @ + 1 ELSE @]
               /\ ch_last' = [key |-> key, outcome |-> r.outcome, loaded |-> r.loaded,
                              checked |-> r.checked]
    /\ UNCHANGED <<tk_vars, md_vars, ev_vars, ps_vars, run_vars>>

CacheNext == GetItem

\* ========================================================= specifications
vars == <<tk_vars, md_vars, ev_vars, ps_vars, run_vars, ch_vars>>

Init == TokInit /\ ModelInit /\ EvalInit /\ ParseInit /\ RunInit /\ CacheInit

\* calls of the tokenizer
SpecTok == Init /\ [][TokNext]_vars

\* get_model_n_tokenizer
SpecModel == Init /\ [][ModelNext]_vars

\* evaluate_trained on one dataset
SpecEval == Init /\ [][EvalNext]_vars

\* set_pred_n_true on one generation
SpecParse == Init /\ [][ParseNext]_vars

\* evaluate_trained over the configured datasets
SpecRun == Init /\ [][RunNext]_vars

\* lookups in ZsGPT2Tokenizer.Cache
SpecCache == Init /\ [][CacheNext]_vars

\* ================================================= claims on the tokenizer
Returned == tk_pc = "returned"
Training == Returned /\ ~tk_call.for_prediction
Prediction == Returned /\ tk_call.for_prediction
\* the answer ids call_single tokenized
CallAnswer == answer_ids(tk_call.is_utcd, tk_call.for_prediction, tk_call.lb_ids)
\* number of returned positions that hold a token of the sample (not padding)
NTok == Min(Len(tk_built.ids), Len(tk_out.input_ids))
IsPrefix(s, t) == Len(s) <= Len(t) /\ SubSeq(t, 1, Len(s)) = s

\* C1 (as claimed): in training mode, whatever max_length is passed, the
\* returned input_ids start with <|question|>, the question ids in full, eos,
\* <|text|>, a prefix of the text ids, eos, <|answer|>, the answer ids in
\* full, eos: only text ids are dropped.
C1_LabelNeverCropped ==
    Training =>
        \E k \in 0..Len(tk_call.ids_text) :
            IsPrefix(<<boq_token_id>> \o tk_call.ids_ques \o
                     <<eos_token_id, bot_token_id>> \o SubSeq(tk_call.ids_text, 1, k) \o
                     <<eos_token_id, boa_token_id>> \o tk_call.lb_ids \o <<eos_token_id>>,
                     tk_out.input_ids)

\* C1, restricted to a max_length that is not below model_max_length (the
\* default): there the label is never cropped.
C1_LabelKeptAtDefaultLength ==
    (Training /\ effective_max_length(tk_call) >= tk_call.model_max_length)
        => C1_LabelNeverCropped

\* C2: in prediction mode the returned prompt leaves room for the longest
\* label and the end-of-sequence token, and a cropped prompt has exactly
\* model_max_length - 1 - max_label_id_length ids.
C2_RoomForLongestLabel ==
    Prediction =>
        /\ Len(tk_out.input_ids) + tk_call.max_label_id_length + 1
               <= tk_call.model_max_length
        /\ (Len(tk_built.ids_text) < Len(tk_call.ids_text) \/ tk_warned) =>
               Len(tk_out.input_ids)
                   = tk_call.model_max_length - 1 - tk_call.max_label_id_length

C2_Witness ==
    /\ Prediction
    /\ tk_warned
    /\ Len(tk_built.ids_text) < Len(tk_call.ids_text)
    /\ tk_call.max_label_id_length = MaxAnsw

\* C4: the context tokens (up to and including <|answer|>) have position ids
\* 0, 1, ... below model_max_length; the tokens after <|answer|> have position
\* ids model_max_length, model_max_length+1, ... below 2*model_max_length;
\* every returned position id indexes a row of the doubled embedding.
C4_PositionRanges ==
    Returned =>
        LET n_token == tk_call.model_max_length
            n_cont == tk_built.n_cont
            pids == tk_out.position_ids
        IN  /\ \A j \in 1..NTok :
                IF j <= n_cont
                THEN pids[j] = j - 1 /\ pids[j] >= 0 /\ pids[j] < n_token
                ELSE /\ pids[j] = n_token + (j - n_cont - 1)
                     /\ pids[j] >= n_token /\ pids[j] < 2 * n_token
            /\ \A j \in 1..Len(pids) : pids[j] >= 0 /\ pids[j] < wpe_rows(n_token)

C4_Witness ==
    /\ Training
    /\ tk_warned
    /\ NTok = tk_call.model_max_length
    /\ NTok > tk_built.n_cont + 2

\* C5: the sequence built for a sample is <|question|> question eos <|text|>
\* text eos <|answer|> answer eos; the type ids are [QUES] over the first
\* segment, [TEXT] over the second, [ANSW] over the third, special tokens
\* included; the four lists have one length.
C5_Structure ==
    Returned =>
        LET q == Len(tk_call.ids_ques)
            t == Len(tk_built.ids_text)
            a == Len(CallAnswer)
            ids == tk_built.ids_full
            tids == tk_built.tids_full
        IN  /\ Len(ids) = q + t + a + 6
            /\ ids[1] = boq_token_id
            /\ \A j \in 1..q : ids[1 + j] = tk_call.ids_ques[j]
            /\ ids[q + 2] = eos_token_id
            /\ ids[q + 3] = bot_token_id
            /\ \A j \in 1..t : ids[q + 3 + j] = tk_built.ids_text[j]
            /\ IsPrefix(tk_built.ids_text, tk_call.ids_text)
            /\ ids[q + t + 4] = eos_token_id
            /\ ids[q + t + 5] = boa_token_id
            /\ \A j \in 1..a : ids[q + t + 5 + j] = CallAnswer[j]
            /\ ids[q + t + a + 6] = eos_token_id
            /\ Len(tids) = Len(ids)
            /\ \A j \in 1..Len(tids) :
                tids[j] = IF j <= q + 2 THEN question_type_token_id
                          ELSE IF j <= q + t + 4 THEN text_type_token_id
                          ELSE answer_type_token_id
            /\ Len(tk_built.tids) = Len(tk_built.ids)
            /\ Len(tk_built.msks) = Len(tk_built.ids)
            /\ Len(tk_built.pids) = Len(tk_built.ids)
            /\ (~tk_call.for_prediction => tk_built.ids = ids /\ tk_built.tids = tids)

C5_Witness ==
    /\ Training
    /\ Len(tk_call.ids_ques) = MaxQues
    /\ Len(tk_built.ids_text) >= 2
    /\ Len(CallAnswer) = MaxAnsw

\* C6: in training mode the four returned lists have length max_length
\* (model_max_length when none is passed); padding is 0 in attention_mask
\* and position_ids and the pad id in input_ids and token_type_ids;
\* attention_mask is 1 elsewhere.
C6_PaddedToMaxLength ==
    Training =>
        LET max_length == IF tk_call.max_length = None
                          THEN tk_call.model_max_length ELSE tk_call.max_length
        IN  /\ Len(tk_out.input_ids) = max_length
            /\ Len(tk_out.attention_mask) = max_length
            /\ Len(tk_out.token_type_ids) = max_length
            /\ Len(tk_out.position_ids) = max_length
            /\ \A j \in 1..max_length :
                IF j > Len(tk_built.ids)
                THEN /\ tk_out.attention_mask[j] = 0
                     /\ tk_out.position_ids[j] = 0
                     /\ tk_out.input_ids[j] = pad_token_id
                     /\ tk_out.token_type_ids[j] = pad_token_id
                ELSE tk_out.attention_mask[j] = 1

C6_Witness ==
    /\ Training
    /\ tk_call.max_length = None
    /\ Len(tk_built.ids) + 2 <= Len(tk_out.input_ids)

\* C7: in prediction mode the returned input_ids end with <|answer|>, hold
\* no answer id and no trailing eos, have n_ques + n_text + 1 ids, and the
\* other three lists have that length; whether the answer string was empty
\* or a label.
C7_PromptEndsWithAnswerStart ==
    Prediction =>
        LET ids == tk_out.input_ids
            n == (1 + Len(tk_call.ids_ques) + 1) + (1 + Len(tk_built.ids_text) + 1) + 1
        IN  /\ Len(ids) = n
            /\ n = tk_built.n_ques + tk_built.n_text + 1
            /\ ids[Len(ids)] = boa_token_id
            /\ ids[Len(ids)] # eos_token_id
            /\ \A j \in 1..Len(ids) : \A k \in 1..Len(tk_call.lb_ids) :
                   ids[j] # tk_call.lb_ids[k]
            /\ Len(tk_out.token_type_ids) = n
            /\ Len(tk_out.attention_mask) = n
            /\ Len(tk_out.position_ids) = n
            /\ \A j \in 1..n : tk_out.attention_mask[j] = 1

\* a label was tokenized as the answer (dataset 'UTCD') and cut off again
C7_Witness ==
    /\ Prediction
    /\ tk_call.is_utcd
    /\ Len(CallAnswer) = MaxAnsw
    /\ Len(tk_built.ids_full) = Len(tk_out.input_ids) + MaxAnsw + 1

\* prediction with the empty answer string (a single dataset)
C7_WitnessEmptyAnswer ==
    /\ Prediction
    /\ ~tk_call.is_utcd
    /\ CallAnswer = << >>

\* ===================================================== claims on the model
\* C3 (as claimed): for every configuration get_model_n_tokenizer builds,
\* debug ones included, the returned model's positional embedding has twice
\* the rows of the pretrained one and both halves equal the pretrained
\* positional weights.
C3_BothHalvesPretrainedAlways ==
    md_pc = "returned" =>
        LET pre == Checkpoint(md_conf.ckpt)
        IN  /\ Len(md_wpe) = 2 * Len(pre)
            /\ \A i \in 1..Len(pre) : md_wpe[i] = pre[i] /\ md_wpe[Len(pre) + i] = pre[i]

\* C3 (amended): the embedding has twice the configuration's positions; with
\* the 1024 positions of a pretrained configuration both halves equal the
\* pretrained positional weights; with a debug configuration (4 or 128
\* positions) no pretrained positional weight is loaded and a warning is
\* emitted.
C3_BothHalvesPretrainedAt1024 ==
    md_pc = "returned" =>
        /\ Len(md_wpe) = 2 * md_conf.n_positions
        /\ tk_model_max_length = md_conf.n_positions
        /\ IF IsDebug(md_conf.model_name)
           THEN /\ md_warned
                /\ md_wpe = RandomInit(md_conf.init, 2 * md_conf.n_positions)
           ELSE LET pre == Checkpoint(md_conf.ckpt)
                IN  /\ ~md_warned
                    /\ Len(md_wpe) = 2 * Len(pre)
                    /\ \A i \in 1..Len(pre) :
                           md_wpe[i] = pre[i] /\ md_wpe[Len(pre) + i] = pre[i]

C3_Witness ==
    /\ md_pc = "returned"
    /\ md_conf.model_name = "gpt2-medium"
    /\ Len(md_wpe) = 2048
    /\ md_wpe[2048] = Checkpoint(md_conf.ckpt)[1024]

\* ================================================ claims on the evaluation
\* C8: every batch holds only samples whose input_ids have one length, for
\* every dataset and batch_size >= 1; so does the batch being generated.
C8_BatchesOfOneLength ==
    ev_pc # "idle" =>
        /\ \A b \in 1..Len(idxs_batches) :
             \A j, k \in 1..Len(idxs_batches[b]) :
                dset.len_ids[idxs_batches[b][j] + 1] = dset.len_ids[idxs_batches[b][k] + 1]
        /\ (ev_pc = "parse" =>
                \A j \in 1..Len(idxs_batches[step + 1]) :
                    dset.len_ids[idxs_batches[step + 1][j] + 1]
                        = dset.len_ids[idxs_batches[step + 1][1] + 1])

\* a batch of two samples is being parsed, in a dataset of two lengths
\* whose samples of the first length are not adjacent
C8_Witness ==
    /\ ev_pc = "parse"
    /\ batch_size >= 2
    /\ Len(idxs_batches[step + 1]) = 2
    /\ Len(dset.len_ids) = 3
    /\ dset.len_ids[1] = dset.len_ids[3]
    /\ dset.len_ids[1] # dset.len_ids[2]

\* the places <<batch, position>> of sample index i in the batches
PlacesOf(i) ==
    {bj \in UNION {{<<b, j>> : j \in 1..Len(idxs_batches[b])} : b \in 1..Len(idxs_batches)} :
        idxs_batches[bj[1]][bj[2]] = i}

\* C13: the batches partition the dataset: every sample index
\* 0..len(dset)-1 is in exactly one batch, no batch is empty and none holds
\* more than batch_size samples; no entry of preds/trues is written twice,
\* and once all batches are processed without error every entry of preds and
\* of trues has been written exactly once.
C13_BatchesPartitionDataset ==
    ev_pc # "idle" =>
        /\ \A i \in 0..(Len(dset.len_ids) - 1) : Cardinality(PlacesOf(i)) = 1
        /\ \A b \in 1..Len(idxs_batches) :
            /\ Len(idxs_batches[b]) >= 1
            /\ Len(idxs_batches[b]) <= batch_size
            /\ \A j \in 1..Len(idxs_batches[b]) :
                    idxs_batches[b][j] \in 0..(Len(dset.len_ids) - 1)
        /\ \A i \in 1..Len(writes) : writes[i] <= 1
        /\ (ev_pc = "exit" =>
                \A i \in 1..Len(dset.len_ids) :
                    /\ writes[i] = 1
                    /\ preds[i] # Unwritten
                    /\ trues[i] # Unwritten)

\* three samples of one length in batches of two (np.split cuts the group
\* into a batch of two and a batch of one), all processed and reported
C13_Witness ==
    /\ ev_pc = "exit"
    /\ Len(dset.len_ids) = 3
    /\ batch_size = 2
    /\ Len(idxs_batches) = 2
    /\ Len(idxs_batches[1]) = 2
    /\ Len(idxs_batches[2]) = 1
    /\ dset.len_ids[1] = dset.len_ids[2]
    /\ dset.len_ids[2] = dset.len_ids[3]

\* C14 (as claimed): on any dataset evaluated, single-label ones included,
\* set_pred_n_true records for a sample the prediction and a true label: the
\* prediction when it is one of the sample's true labels, the first true
\* label otherwise; so the two are equal exactly when the prediction is one
\* of the true labels, and never for a -1 prediction. (The NameError of C10
\* and the parser's own assertion are left aside.)
C14_TrueLabelRecorded ==
    (last.i_sample >= 0 /\ ev_pc \notin {"NameError", "AssertionError"}) =>
        LET i == last.i_sample + 1
            lbs_true == dset.labels[i]
            hit == \E k \in 1..Len(lbs_true) : lbs_true[k] = last.id_pred
        IN  /\ ev_pc # "KeyError"
            /\ writes[i] = 1
            /\ preds[i] = last.id_pred
            /\ trues[i] = IF hit THEN last.id_pred ELSE lbs_true[1]
            /\ (preds[i] = trues[i]) <=> hit
            /\ preds[i] = -1 => preds[i] # trues[i]

\* C14 on multi-label datasets, where it holds
C14_TrueLabelRecordedMultiLabel ==
    dset.is_multi_label => C14_TrueLabelRecorded

\* ---- the generation that was parsed, read independently of the parser
GenBoa == {i \in 1..Len(ps_generated) : ps_generated[i] = "<|answer|>"}
GenFirstBoa == CHOOSE i \in GenBoa : \A j \in GenBoa : i <= j
GenEos == {i \in 1..Len(ps_generated) : i > GenFirstBoa /\ ps_generated[i] = "<|endoftext|>"}
GenFirstEos == CHOOSE i \in GenEos : \A j \in GenEos : i <= j
\* the text between the answer-start token and the first eos after it
GenAnswer == Lower(SubSeq(ps_generated, GenFirstBoa + 1, GenFirstEos - 1))
GenMatches == {i \in 1..Len(ps_labels) : Lower(ps_labels[i]) = GenAnswer}
Unparseable ==
    \/ Cardinality(GenBoa) > 1
    \/ GenEos = {}
    \/ GenMatches = {}

C10_MalformedIsRecorded ==
    last.n_boa > 1 =>
        /\ ev_pc \notin {"NameError", "AssertionError"}
        /\ n_warn_boa >= 1
        /\ writes[last.i_sample + 1] = 1
        /\ preds[last.i_sample + 1] = -1

\* C10 after the first batch: there d_log is bound and the claim holds.
C10_MalformedIsRecordedLater ==
    (last.n_boa > 1 /\ step >= 1) => C10_MalformedIsRecorded

\* ------------------------------------------- claims on truncation warnings
\* length of the full, untruncated sequence of the sample: the question,
\* text and answer parts in training, the prompt up to <|answer|> in prediction
FullLen ==
    IF tk_call.for_prediction
    THEN (1 + Len(tk_call.ids_ques) + 1) + (1 + Len(tk_call.ids_text) + 1) + 1
    ELSE (1 + Len(tk_call.ids_ques) + 1) + (1 + Len(tk_call.ids_text) + 1)
         + (1 + Len(CallAnswer) + 1)
Truncated == NTok < FullLen

\* C12 (as claimed): whenever __call__ returns for a sample fewer tokens than
\* its full untruncated sequence, by the text crop or by the cut to
\* max_length, a warning was emitted for the sample; and no warning is
\* emitted for a sample returned whole.
C12_TruncationWarned ==
    Returned => (Truncated <=> tk_warned)

\* the halves of C12 that hold: a text crop is warned of, and a sample
\* returned whole gets no warning
C12_CropWarned ==
    Returned =>
        /\ Len(tk_built.ids_text) < Len(tk_call.ids_text) => tk_warned
        /\ tk_warned => Truncated

\* ------------------------------------------------ claims on the dataset loop
\* the datasets evaluate_trained(in_domain) is to report on
OfDomain == {datasets[i].name : i \in {j \in 1..Len(datasets) :
                                         datasets[j].out_of_domain = (~in_domain)}}
Reports(dnm_) == {i \in 1..Len(csv_written) : csv_written[i] = dnm_}

\* C11 (as claimed): when a call evaluate_trained(in_domain) has ended
\* without an exception, it has written one CSV report for each configured
\* dataset whose out_of_domain flag equals (not in_domain), and none for a
\* dataset of the other domain.
C11_OneReportPerDatasetOfDomain ==
    run_pc \in {"exit", "returned"} =>
        \A dnm_ \in DatasetNames :
            Cardinality(Reports(dnm_)) = IF dnm_ \in OfDomain THEN 1 ELSE 0

\* the half of C11 that holds: no report for a dataset of the other domain,
\* and never two for one dataset
C11_NoReportForOtherDomain ==
    \A dnm_ \in DatasetNames :
        /\ Cardinality(Reports(dnm_)) <= 1
        /\ Reports(dnm_) # {} => dnm_ \in OfDomain

\* ------------------------------------------------------ claims on the Cache
Looked == ch_last.outcome # "none"
\* the entry the claims describe for a key
EntryOf(key) ==
    LET names == FeatNames(key.dataset_name, key.split)
    IN  [n_classes |-> Len(names), label2description |-> names,
         max_label_id_length |-> max_label_id_length(names)]

\* C15 (as claimed): over any sequence of lookups a key is loaded from disk
\* at most once; once it was looked up, its entry with n_classes,
\* label2description and max_label_id_length is stored, and a lookup that
\* finds the entry does not load.
C15_LoadedAtMostOnce ==
    /\ \A key \in Keys :
        /\ n_loads[key] <= 1
        /\ n_loads[key] >= 1 => cache[key] = EntryOf(key)
    /\ Looked => cache[ch_last.key] = EntryOf(ch_last.key)

\* the parts of C15 that hold: a key whose entry is stored was loaded once
\* and is not loaded again
C15_StoredLoadedOnce ==
    \A key \in Keys :
        cache[key] # NoEntry => (n_loads[key] = 1 /\ cache[key] = EntryOf(key))

\* and a lookup changes the entry of no other key
C15_OtherKeysUntouched ==
    [][\A key \in Keys : key # ch_last'.key => cache'[key] = cache[key]]_vars

\* C16 (as claimed): a lookup of a multi-label dataset under
\* '<name>-label-grouped', <name> of any length, returns an entry, and when
\* it loads, the label names are checked against the configuration of <name>.
C16_GroupedNameStripped ==
    (Looked /\ is_multi_label(ch_last.key.dataset_name)) =>
        /\ ch_last.outcome = "returned"
        /\ cache[ch_last.key] = EntryOf(ch_last.key)
        /\ ch_last.loaded => ch_last.checked = DiskBase(ch_last.key.dataset_name)

\* C16 for a <name> of one character, where it holds
C16_OneCharacterNameStripped ==
    Len(ch_last.key.dataset_name) <= 2 => C16_GroupedNameStripped

====
